---- MODULE Spec2Model ----
(***************************************************************************)
(* The trading-cycle state machine of the auto-trading bot (src/bot2.js).  *)
(* Two engines are modelled: AutoTradingBot (Azbit, src/bot2.js:535-1252)  *)
(* and AutoTradingBot2 (P2PB2B, src/bot2.js:5-528).  The main flow is one  *)
(* async call chain startTrading -> executeTrade -> executeTradeAction;    *)
(* pc is the await (or synchronous continuation) it stands at.  The        *)
(* shutdown handler is a second async function that is started by a signal *)
(* while the main flow is suspended at an await.                           *)
(***************************************************************************)
EXTENDS Integers, Sequences, FiniteSets, TLC

VARIABLES
    venue,                \* "azbit" | "p2pb2b": which engine class runs
    lastAction,           \* this.lastAction
    isShuttingDown,       \* this.isShuttingDown
    pendingOrders,        \* this.pendingOrders: Map in insertion order
    currentCycle,         \* this.currentCycle
    ordersInCurrentCycle, \* this.ordersInCurrentCycle
    targetOrdersInCycle,  \* this.targetOrdersInCycle
    pc,                   \* position of the main flow
    stack,                \* `action` of each executeTrade frame suspended in a nested call
    action,               \* executeTrade local `action` of the innermost frame
    price,                \* executeTrade local `price`
    amount,               \* executeTrade local `tradeAmount`
    orderData,            \* executeTradeAction local: id of the first order (0 = null)
    matchingOrderId,      \* executeTradeAction local (0 = null)
    retryCount,           \* executeTradeAction local: polls used
    bothOrdersFilled,     \* executeTradeAction local
    reqIdx,               \* index in requests of the main flow's request in flight
    hpc,                  \* shutdown handler: "idle" | "matching" | "exited"
    hOrderId,             \* handler loop variable orderId
    hVisited,             \* keys the handler's Map iterator has already yielded
    hReqIdx,              \* index in requests of the handler's request in flight
    requests,             \* every order request sent to the exchange, in order
    attempts,             \* history: executeTradeAction calls made so far
    attemptsInCycle,      \* history: executeTradeAction calls since the last cycle bootstrap
    placedInCycle,        \* history: first orders placed since the last cycle bootstrap
    pendingAtSignal,      \* history: pendingOrders.size when the signal arrived (-1 = none)
    matchFailed,          \* history: first orders whose matching order failed in executeTradeAction
    settledByPoll,        \* history: first orders whose polling saw both filled or used all polls
    statusFailed,         \* history: first orders whose status check after creation failed
    lastPoll,             \* history: <<first, matching>> of the poll just made
    signals,              \* history: termination signals delivered so far
    credentials,          \* the constructor's arguments: which keys are truthy
    handlersRegistered,   \* setupShutdownHandlers has run
    transactions,         \* content of the venue's transactions file
    txHistory,            \* history: every record ever pushed to the file
    orderbookDoc,         \* content of the venue's orderbook file
    balanceCall,          \* one getBalance() call: environment, response, result
    quote,                \* one run of the pricing block: inputs, price, amount
    server                \* the process supervisor of one venue: botProcesses[botId], marker file, engine processes

vars == <<venue, lastAction, isShuttingDown, pendingOrders, currentCycle,
          ordersInCurrentCycle, targetOrdersInCycle, pc, stack, action, price,
          amount, orderData, matchingOrderId, retryCount, bothOrdersFilled,
          reqIdx, hpc, hOrderId, hVisited, hReqIdx, requests, attempts,
          attemptsInCycle, placedInCycle, pendingAtSignal, matchFailed,
          settledByPoll, statusFailed, lastPoll, signals, credentials,
          handlersRegistered, transactions, txHistory, orderbookDoc,
          balanceCall, quote, server>>

----------------------------------------------------------------------------
(* Bounds and program constants *)

\* cap on the number of pair attempts (executeTradeAction calls) explored
MaxAttempts == 3

\* cap on the number of termination signals delivered
MaxSignals == 2

\* getRandomOrderCount: Math.floor(Math.random() * 5) + 1
MaxOrderCount == 5

\* executeTradeAction: const maxRetries = 5
PollMaxRetries == 5

\* parseFloat(status.filled) >= 99, in hundredths of a percent
FillThreshold == 9900

Venues == {"azbit", "p2pb2b"}

\* the (price, tradeAmount) strings the pricing block can produce, as a small
\* set of decimal values
Quotes == { [price |-> 97, amount |-> 3], [price |-> 95, amount |-> 1] }

\* fill percentages a status call can report (hundredths), -1 = {status:'error'}
StatusError == -1
LegResults == {StatusError, 9899, 9900}

\* TRADE_SYMBOL as a string of characters
TradeSymbol == <<"b", "/", "U">>

Undefined == <<>>
NoOrder == 0

\* cap on the saveTransactionData calls explored on one transactions file
MaxSaves == 3

\* saveTransactionData: if (transactions.length > 20)
LogCap == 20

\* Math.max(0.1, parseFloat(tradeAmount)), in hundredths
MinTradeAmount == 10

\* the orderbook file has not been written
NoDocument == "none"

\* process.env.TEST_MODE and process.env.TEST_BALANCE ("unset" = undefined)
TestModes == {"unset", "true", "false"}
TestBalances == {"unset", "", "100", "50"}

\* what the venue answers to a balance request: the request fails, the
\* answer has no USDT entry, or it has one with this amount
BalanceResponses == { [kind |-> "throws", amount |-> 0],
                      [kind |-> "noUsdt", amount |-> 0],
                      [kind |-> "usdt", amount |-> 40] }

\* the three engine classes of the pricing block
Engines == {"AutoTradingBot2", "AutoTradingBot", "AutoTradingBot-older"}

\* inputs of the pricing block, money in hundredths: order books, the random
\* adjustment r in hundredths of a percent, balances
OrderBooks == { [bestBid |-> 9900, bestAsk |-> 10000],
                [bestBid |-> 9000, bestAsk |-> 10000],
                [bestBid |-> 50, bestAsk |-> 60] }
Adjustments == {200, 300, 350, 500}
Balances == {10000, 100, 2}

\* cap on the engine processes one supervisor spawns for a venue
MaxSpawns == 2

\* cap on the restarts of the supervisor
MaxRestarts == 1

\* botProcesses[botId].process: null
NoProcess == 0

\* how the supervisors are deployed
Supervisors == {"express", "next"}
Platforms == {"linux", "darwin", "win32"}

----------------------------------------------------------------------------
(* Pure helpers *)

\* String.prototype.replace(from, to) with a string pattern: first occurrence only
RECURSIVE Replace(_, _, _)
Replace(s, from, to) ==
    IF s = <<>> THEN <<>>
    ELSE IF Head(s) = from THEN to \o Tail(s)
    ELSE <<Head(s)>> \o Replace(Tail(s), from, to)

UpperChar(c) == CASE c = "b" -> "B" [] c = "u" -> "U" [] OTHER -> c

\* String.prototype.toUpperCase
ToUpperCase(s) == [i \in 1..Len(s) |-> UpperChar(s[i])]

\* side.toLowerCase()
ToLowerCase(side) ==
    CASE side = "BUY" -> "buy" [] side = "SELL" -> "sell" [] OTHER -> side

\* P2PB2BExchange.formatMarketSymbol
formatMarketSymbol(market) == ToUpperCase(Replace(market, "/", <<"_">>))

getRandomOrderCount_ZeroBased == 0..(MaxOrderCount - 1)
getRandomOrderCount == 1..MaxOrderCount

\* orderDetails.type === 'buy' ? 'sell' : 'buy'
MatchingSide_Same(type) == type
MatchingSide(type) == IF type = "buy" THEN "sell" ELSE "buy"

\* the order the engine's createOrder sends for (symbol, side, amount, price)
createOrder(v, symbol, side, amt, prc) ==
    IF v = "azbit"
    THEN [sent |-> TRUE, market |-> Replace(symbol, "/", <<"_">>),
          side |-> ToLowerCase(side), amount |-> amt, price |-> prc]
    ELSE [sent |-> TRUE, market |-> formatMarketSymbol(symbol),
          side |-> ToLowerCase(side), amount |-> amt, price |-> prc]

\* the orderDetails object executeTradeAction builds for the first order
OrderDetails(v, act, symbol, amt, prc) ==
    IF v = "azbit"
    THEN [type |-> act, amount |-> amt, price |-> prc,
          currencyPairCode |-> Replace(symbol, "/", <<"_">>), market |-> Undefined]
    ELSE [type |-> act, amount |-> amt, price |-> prc,
          currencyPairCode |-> Undefined, market |-> Replace(symbol, "/", <<>>)]

\* createMatchingOrder: the order it sends; sent = FALSE when it throws before
\* sending (orderDetails.currencyPairCode undefined) and its catch returns null
createMatchingOrder(v, orderDetails) ==
    IF v = "azbit"
    THEN [sent |-> TRUE, market |-> orderDetails.currencyPairCode,
          side |-> MatchingSide(orderDetails.type),
          amount |-> orderDetails.amount, price |-> orderDetails.price]
    ELSE IF orderDetails.currencyPairCode = Undefined
         THEN [sent |-> FALSE, market |-> Undefined,
               side |-> MatchingSide(orderDetails.type),
               amount |-> orderDetails.amount, price |-> orderDetails.price]
         ELSE [sent |-> TRUE,
               market |-> formatMarketSymbol(Replace(orderDetails.currencyPairCode, "_", <<"/">>)),
               side |-> ToLowerCase(MatchingSide(orderDetails.type)),
               amount |-> orderDetails.amount, price |-> orderDetails.price]

\* !this.isShuttingDown, the test at the loop-continuation points
NotShuttingDown_Ignored(flag) == TRUE
NotShuttingDown(flag) == ~flag

\* handleShutdown: if (this.isShuttingDown) return
AlreadyShuttingDown_Never(flag) == FALSE
AlreadyShuttingDown(flag) == flag

\* one turn of the polling loop on the two status results: a failed status
\* call counts an attempt, both legs at the threshold set bothOrdersFilled,
\* anything else counts an attempt
PollOutcome_EitherLeg(first, matching, rc) ==
    IF first = StatusError \/ matching = StatusError
    THEN [filled |-> FALSE, retryCount |-> rc + 1]
    ELSE IF first >= FillThreshold \/ matching >= FillThreshold
    THEN [filled |-> TRUE, retryCount |-> rc]
    ELSE [filled |-> FALSE, retryCount |-> rc + 1]
PollOutcome_ErrorFree(first, matching, rc) ==
    IF first = StatusError \/ matching = StatusError
    THEN [filled |-> FALSE, retryCount |-> rc]
    ELSE IF first >= FillThreshold /\ matching >= FillThreshold
    THEN [filled |-> TRUE, retryCount |-> rc]
    ELSE [filled |-> FALSE, retryCount |-> rc + 1]
PollOutcome(first, matching, rc) ==
    IF first = StatusError \/ matching = StatusError
    THEN [filled |-> FALSE, retryCount |-> rc + 1]
    ELSE IF first >= FillThreshold /\ matching >= FillThreshold
    THEN [filled |-> TRUE, retryCount |-> rc]
    ELSE [filled |-> FALSE, retryCount |-> rc + 1]

\* constructor: if (!apiKey || !secretKey) throw, before anything else
Constructs_ApiKeyOnly(apiKey, secretKey) == apiKey
Constructs(apiKey, secretKey) == apiKey /\ secretKey

\* a || b on strings: the empty string and undefined are falsy
OrDefault(v, d) == IF v \in {"unset", ""} THEN d ELSE v

\* parseFloat on the decimal strings used here
ParseFloat(str) == CASE str = "100" -> 100 [] str = "50" -> 50

\* parseFloat(process.env.TEST_BALANCE || '100')
TestBalance(testBalance) == ParseFloat(OrDefault(testBalance, "100"))

\* P2PB2BExchange.getBalance: the test balance in test mode, else the venue
\* request; every failure is rethrown
exchangeGetBalance_NoTestMode(testMode, testBalance, response) ==
    IF response.kind = "usdt"
    THEN [threw |-> FALSE, value |-> response.amount, requested |-> TRUE]
    ELSE [threw |-> TRUE, value |-> 0, requested |-> TRUE]
exchangeGetBalance(testMode, testBalance, response) ==
    IF testMode = "true"
    THEN [threw |-> FALSE, value |-> TestBalance(testBalance), requested |-> FALSE]
    ELSE IF response.kind = "usdt"
    THEN [threw |-> FALSE, value |-> response.amount, requested |-> TRUE]
    ELSE [threw |-> TRUE, value |-> 0, requested |-> TRUE]

\* the engine's getBalance(): what it returns, whether a venue request was
\* made, whether its catch block ran
getBalance(v, testMode, testBalance, response) ==
    LET fallback == IF testMode = "true" THEN TestBalance(testBalance) ELSE 0 IN
    IF v = "azbit"
    THEN IF testMode = "true"
         THEN [value |-> TestBalance(testBalance), requested |-> FALSE, caught |-> FALSE]
         ELSE IF response.kind = "throws"
         THEN [value |-> fallback, requested |-> TRUE, caught |-> TRUE]
         ELSE IF response.kind = "usdt"
         THEN [value |-> response.amount, requested |-> TRUE, caught |-> FALSE]
         ELSE [value |-> 0, requested |-> TRUE, caught |-> FALSE]
    ELSE LET r == exchangeGetBalance(testMode, testBalance, response) IN
         IF r.threw
         THEN [value |-> fallback, requested |-> r.requested, caught |-> TRUE]
         ELSE [value |-> r.value, requested |-> r.requested, caught |-> FALSE]

\* no getBalance() call under observation
NoCall ==
    [phase |-> "none", testMode |-> "unset", testBalance |-> "unset",
     response |-> [kind |-> "throws", amount |-> 0],
     value |-> 0, requested |-> FALSE, caught |-> FALSE]

\* Number.prototype.toFixed on a quotient of non-negative numbers: n / d
\* rounded to the nearest unit
RoundDiv(n, d) == (2 * n + d) \div (2 * d)

Max(a, b) == IF a >= b THEN a ELSE b

\* the price of the pricing block: (base * (1 -+ r/100)).toFixed
OrderPrice(engine, act, bestBid, bestAsk, r) ==
    IF engine = "AutoTradingBot-older" /\ act = "buy"
    THEN RoundDiv(bestBid * (10000 + r), 10000)
    ELSE RoundDiv(bestAsk * (10000 - r), 10000)

\* tradeAmount: (balance * 0.3 / price).toFixed, then Math.max(0.1, ...)
TradeAmount(balance, prc) == Max(MinTradeAmount, RoundDiv(30 * balance, prc))

\* no pricing run under observation
NoQuote ==
    [phase |-> "none", engine |-> "AutoTradingBot", action |-> "buy",
     bestBid |-> 0, bestAsk |-> 0, adjustment |-> 0, balance |-> 0,
     price |-> 0, amount |-> 0]

\* the record executeTradeAction passes to saveTransactionData
TransactionRecord(act, amt, prc) ==
    [type |-> act, amount |-> amt, price |-> prc, total |-> amt * prc,
     status |-> "completed"]

\* Array.prototype.slice(-n)
SliceLast(s, n) == IF Len(s) <= n THEN s ELSE SubSeq(s, Len(s) - n + 1, Len(s))

\* saveTransactionData: push, keep the latest 20, write the file
saveTransactionData_KeepOldest(log, transaction) ==
    LET pushed == Append(log, transaction) IN
    IF Len(pushed) > LogCap THEN SubSeq(pushed, 1, LogCap) ELSE pushed
saveTransactionData(log, transaction) ==
    LET pushed == Append(log, transaction) IN
    IF Len(pushed) > LogCap THEN SliceLast(pushed, LogCap) ELSE pushed

\* the engine's executeTradeAction calls saveTransactionData on a filled pair
SavesTransaction(v) == v = "p2pb2b"

\* what the supervisor's stop sends to the engine process
StopSignal(supervisor, platform) ==
    IF supervisor = "express"
    THEN IF platform = "linux" THEN "SIGKILL" ELSE "SIGTERM"
    ELSE IF platform = "win32" THEN "taskkill /f" ELSE "SIGTERM"

\* the engine's handlers run for it: SIGTERM, where signals exist
Trappable(sig, platform) == sig = "SIGTERM" /\ platform # "win32"

\* no supervisor under observation
NoServer ==
    [kind |-> "none", platform |-> "none", running |-> FALSE,
     process |-> NoProcess, marker |-> FALSE, alive |-> {}, doomed |-> {},
     spawned |-> 0, restarts |-> 0,
     last |-> [action |-> "none", outcome |-> "none"]]

\* the engine class has a getOrderStatus method
HasGetOrderStatus(v) == v = "azbit"

----------------------------------------------------------------------------
(* The pendingOrders Map *)

PendingIds == { pendingOrders[i].orderId : i \in 1..Len(pendingOrders) }

\* Map.prototype.set
MapSet(m, k, d) ==
    IF \E i \in 1..Len(m) : m[i].orderId = k
    THEN [i \in 1..Len(m) |-> IF m[i].orderId = k
                              THEN [orderId |-> k, details |-> d] ELSE m[i]]
    ELSE Append(m, [orderId |-> k, details |-> d])

\* Map.prototype.delete
MapDelete_Keep(m, k) == m
MapDelete(m, k) == SelectSeq(m, LAMBDA e : e.orderId # k)

\* the next entry a live Map iterator yields: the first one not yet yielded
Unvisited_None(m, seen) == <<>>
Unvisited(m, seen) == SelectSeq(m, LAMBDA e : e.orderId \notin seen)

----------------------------------------------------------------------------
(* The exchange's record of requests *)

\* a request as recorded: who sent it, for which first order, and the outcome
Req(kind, by, matchOf, o) ==
    [kind |-> kind, by |-> by, matchOf |-> matchOf, sent |-> o.sent,
     market |-> o.market, side |-> o.side, amount |-> o.amount,
     price |-> o.price, result |-> "inflight"]

SetResult(rs, i, r) == [rs EXCEPT ![i].result = r]

FirstIds == { i \in 1..Len(requests) : requests[i].kind = "first" }
MatchingOf(id) ==
    { i \in 1..Len(requests) :
        requests[i].kind = "matching" /\ requests[i].matchOf = id /\ requests[i].sent }

----------------------------------------------------------------------------
(* Initial state: after the constructor (src/bot2.js:536-571, 6-39) *)

EngineInit ==
    /\ venue \in Venues
    /\ credentials \in [apiKey : BOOLEAN, secretKey : BOOLEAN]
    /\ handlersRegistered = Constructs(credentials.apiKey, credentials.secretKey)
    /\ lastAction = "sell"
    /\ isShuttingDown = FALSE
    /\ pendingOrders = <<>>
    /\ currentCycle = 0
    /\ ordersInCurrentCycle = 0
    /\ targetOrdersInCycle \in getRandomOrderCount
    /\ pc = IF Constructs(credentials.apiKey, credentials.secretKey)
            THEN "constructed" ELSE "refused"
    /\ stack = <<>>
    /\ action = "none"
    /\ price = 0
    /\ amount = 0
    /\ orderData = NoOrder
    /\ matchingOrderId = NoOrder
    /\ retryCount = 0
    /\ bothOrdersFilled = FALSE
    /\ reqIdx = 0
    /\ hpc = "idle"
    /\ hOrderId = NoOrder
    /\ hVisited = {}
    /\ hReqIdx = 0
    /\ requests = <<>>
    /\ attempts = 0
    /\ attemptsInCycle = 0
    /\ placedInCycle = 0
    /\ pendingAtSignal = -1
    /\ matchFailed = {}
    /\ settledByPoll = {}
    /\ statusFailed = {}
    /\ lastPoll = <<>>
    /\ signals = 0
    /\ orderbookDoc = NoDocument

\* the engine of the trading runs: no file yet, no call under observation
Init ==
    /\ EngineInit
    /\ transactions = <<>>
    /\ txHistory = <<>>
    /\ balanceCall = NoCall
    /\ quote = NoQuote
    /\ server = NoServer

\* the awaits of the main flow: the points where a signal handler can start
AwaitPcs == {"getOrderBook", "wait30", "getBalance", "getMarketLimits",
             "createOrder", "getOrderStatus", "createMatchingOrder",
             "pollWait", "pollStatus", "wait5cycle", "wait5next"}

\* the process has not exited and was not killed
Alive == hpc \notin {"exited", "killed"}

sideVars == <<credentials, handlersRegistered, orderbookDoc, balanceCall, quote,
              server>>
logVars == <<transactions, txHistory>>
engineVars == <<venue, lastAction, isShuttingDown, pendingOrders, currentCycle,
                ordersInCurrentCycle, targetOrdersInCycle>>
frameVars == <<action, price, amount>>
actionVars == <<orderData, matchingOrderId, retryCount, bothOrdersFilled, reqIdx>>
handlerVars == <<hpc, hOrderId, hVisited, hReqIdx, pendingAtSignal>>
historyVars == <<attempts, attemptsInCycle, placedInCycle, matchFailed,
                 settledByPoll, statusFailed>>

----------------------------------------------------------------------------
(* Main flow *)

\* startTrading: await this.executeTrade(exchange, symbol)
StartTrading ==
    /\ Alive /\ pc = "constructed"
    /\ pc' = "executeTrade"
    /\ UNCHANGED <<engineVars, stack, frameVars, actionVars, handlerVars,
                   requests, historyVars, lastPoll, signals,
                   sideVars, logVars>>

\* executeTrade entry: the isShuttingDown check, then await getOrderBook
ExecuteTradeEnter ==
    /\ Alive /\ pc = "executeTrade"
    /\ pc' = IF NotShuttingDown(isShuttingDown) THEN "getOrderBook" ELSE "return"
    /\ UNCHANGED <<engineVars, stack, frameVars, actionVars, handlerVars,
                   requests, historyVars, lastPoll, signals,
                   sideVars, logVars>>

\* getOrderBook returned null: await the 30 s timer
GetOrderBookFail ==
    /\ Alive /\ pc = "getOrderBook"
    /\ pc' = "wait30"
    /\ UNCHANGED <<engineVars, stack, frameVars, actionVars, handlerVars,
                   requests, historyVars, lastPoll, signals,
                   sideVars, logVars>>

\* the 30 s timer fired: return this.executeTrade(exchange, symbol)
Wait30Done_Stop ==
    /\ Alive /\ pc = "wait30"
    /\ pc' = "return"
    /\ UNCHANGED <<engineVars, stack, frameVars, actionVars, handlerVars,
                   requests, historyVars, lastPoll, signals,
                   sideVars, logVars>>
Wait30Done ==
    /\ Alive /\ pc = "wait30"
    /\ pc' = "executeTrade"
    /\ UNCHANGED <<engineVars, stack, frameVars, actionVars, handlerVars,
                   requests, historyVars, lastPoll, signals,
                   sideVars, logVars>>

\* getOrderBook returned a book: the new-cycle check, then await getBalance
GetOrderBookOk ==
    /\ Alive /\ pc = "getOrderBook"
    /\ IF ordersInCurrentCycle >= targetOrdersInCycle
       THEN /\ currentCycle' = currentCycle + 1
            /\ ordersInCurrentCycle' = 0
            /\ targetOrdersInCycle' \in getRandomOrderCount
            /\ lastAction' = IF lastAction = "buy" THEN "sell" ELSE "buy"
            /\ attemptsInCycle' = 0
            /\ placedInCycle' = 0
       ELSE UNCHANGED <<currentCycle, ordersInCurrentCycle, targetOrdersInCycle,
                        lastAction, attemptsInCycle, placedInCycle>>
    /\ pc' = "getBalance"
    /\ UNCHANGED <<venue, isShuttingDown, pendingOrders, stack, frameVars,
                   actionVars, handlerVars, requests, attempts, matchFailed,
                   settledByPoll, statusFailed, lastPoll, signals,
                   sideVars, logVars>>

\* getBalance returned a falsy balance: await the 30 s timer
GetBalanceFail ==
    /\ Alive /\ pc = "getBalance"
    /\ pc' = "wait30"
    /\ UNCHANGED <<engineVars, stack, frameVars, actionVars, handlerVars,
                   requests, historyVars, lastPoll, signals,
                   sideVars, logVars>>

\* getBalance returned a balance: action and pricing, then the retry loop's
\* first test and the call of executeTradeAction, which calls createOrder
GetBalanceOk ==
    /\ Alive /\ pc = "getBalance"
    /\ attempts < MaxAttempts
    /\ \E q \in Quotes :
        LET act == IF lastAction = "sell" THEN "buy" ELSE "sell" IN
        /\ action' = act
        /\ price' = q.price
        /\ amount' = q.amount
        /\ IF NotShuttingDown(isShuttingDown)
           THEN /\ attempts' = attempts + 1
                /\ attemptsInCycle' = attemptsInCycle + 1
                /\ IF venue = "azbit"
                   THEN /\ requests' = Append(requests,
                               Req("first", "main", 0,
                                   createOrder(venue, TradeSymbol, act, q.amount, q.price)))
                        /\ reqIdx' = Len(requests) + 1
                        /\ placedInCycle' = placedInCycle + 1
                        /\ pc' = "createOrder"
                   ELSE /\ pc' = "getMarketLimits"
                        /\ UNCHANGED <<requests, reqIdx, placedInCycle>>
           ELSE /\ pc' = "return"
                /\ UNCHANGED <<requests, reqIdx, attempts, attemptsInCycle,
                               placedInCycle>>
    /\ orderData' = NoOrder
    /\ matchingOrderId' = NoOrder
    /\ retryCount' = 0
    /\ bothOrdersFilled' = FALSE
    /\ UNCHANGED <<engineVars, stack, handlerVars, matchFailed, settledByPoll, statusFailed,
                   lastPoll, signals, sideVars, logVars>>

\* P2PB2BExchange.createOrder: getMarketLimits returned and the limits hold:
\* the order is posted
MarketLimitsOk ==
    /\ Alive /\ pc = "getMarketLimits"
    /\ requests' = Append(requests,
           Req("first", "main", 0, createOrder(venue, TradeSymbol, action, amount, price)))
    /\ reqIdx' = Len(requests) + 1
    /\ placedInCycle' = placedInCycle + 1
    /\ pc' = "createOrder"
    /\ UNCHANGED <<engineVars, stack, frameVars, orderData, matchingOrderId,
                   retryCount, bothOrdersFilled, handlerVars, attempts,
                   attemptsInCycle, matchFailed, settledByPoll, statusFailed,
                   lastPoll, signals, sideVars, logVars>>

\* P2PB2BExchange.createOrder: getMarketLimits failed or a limit is violated:
\* it throws, createOrder returns null, executeTradeAction returns
MarketLimitsFail ==
    /\ Alive /\ pc = "getMarketLimits"
    /\ pc' = "afterAction"
    /\ UNCHANGED <<engineVars, stack, frameVars, actionVars, handlerVars,
                   requests, historyVars, lastPoll, signals,
                   sideVars, logVars>>

\* createOrder returned null: 'Failed to create first order', return
CreateOrderFail ==
    /\ Alive /\ pc = "createOrder"
    /\ requests' = SetResult(requests, reqIdx, "fail")
    /\ pc' = "afterAction"
    /\ UNCHANGED <<engineVars, stack, frameVars, actionVars, handlerVars,
                   historyVars, lastPoll, signals, sideVars, logVars>>

\* createOrder returned the order: await this.getOrderStatus(orderData); the
\* P2PB2B engine has no such method, the call throws and the catch returns
CreateOrderOk ==
    /\ Alive /\ pc = "createOrder"
    /\ requests' = SetResult(requests, reqIdx, "ok")
    /\ orderData' = reqIdx
    /\ pc' = IF HasGetOrderStatus(venue) THEN "getOrderStatus" ELSE "afterAction"
    /\ statusFailed' = IF HasGetOrderStatus(venue)
                       THEN statusFailed ELSE statusFailed \cup {reqIdx}
    /\ UNCHANGED <<engineVars, stack, frameVars, matchingOrderId, retryCount,
                   bothOrdersFilled, reqIdx, handlerVars, attempts,
                   attemptsInCycle, placedInCycle, matchFailed, settledByPoll,
                   lastPoll, signals, sideVars, logVars>>

\* getOrderStatus returned {status: 'error'}: return
GetOrderStatusError ==
    /\ Alive /\ pc = "getOrderStatus"
    /\ pc' = "afterAction"
    /\ statusFailed' = statusFailed \cup {orderData}
    /\ UNCHANGED <<engineVars, stack, frameVars, actionVars, handlerVars,
                   requests, attempts, attemptsInCycle, placedInCycle,
                   matchFailed, settledByPoll, lastPoll, signals,
                   sideVars, logVars>>

\* getOrderStatus returned the order: pendingOrders.set, then
\* await this.createMatchingOrder({...})
GetOrderStatusOk ==
    /\ Alive /\ pc = "getOrderStatus"
    /\ LET d == OrderDetails(venue, action, TradeSymbol, amount, price) IN
        /\ pendingOrders' = MapSet(pendingOrders, orderData, d)
        /\ requests' = Append(requests,
               Req("matching", "main", orderData, createMatchingOrder(venue, d)))
    /\ reqIdx' = Len(requests) + 1
    /\ pc' = "createMatchingOrder"
    /\ UNCHANGED <<venue, lastAction, isShuttingDown, currentCycle,
                   ordersInCurrentCycle, targetOrdersInCycle, stack, frameVars,
                   orderData, matchingOrderId, retryCount, bothOrdersFilled,
                   handlerVars, historyVars, lastPoll, signals,
                   sideVars, logVars>>

\* the test of the polling loop: another poll, or leave executeTradeAction
PollLoopPc_OneShort(rc, shutting) ==
    IF rc < PollMaxRetries - 1 /\ NotShuttingDown(shutting) THEN "pollWait" ELSE "afterAction"
PollLoopPc(rc, shutting) ==
    IF rc < PollMaxRetries /\ NotShuttingDown(shutting) THEN "pollWait" ELSE "afterAction"

\* createMatchingOrder returned null: pendingOrders.delete, no polling
CreateMatchingOrderFail_KeepEntry ==
    /\ Alive /\ pc = "createMatchingOrder"
    /\ requests' = SetResult(requests, reqIdx, "fail")
    /\ pendingOrders' = pendingOrders
    /\ matchFailed' = matchFailed \cup {orderData}
    /\ pc' = "afterAction"
    /\ UNCHANGED <<venue, lastAction, isShuttingDown, currentCycle,
                   ordersInCurrentCycle, targetOrdersInCycle, stack, frameVars,
                   actionVars, handlerVars, attempts, attemptsInCycle,
                   placedInCycle, settledByPoll, statusFailed,
                   lastPoll, signals, sideVars, logVars>>
CreateMatchingOrderFail ==
    /\ Alive /\ pc = "createMatchingOrder"
    /\ requests' = SetResult(requests, reqIdx, "fail")
    /\ pendingOrders' = MapDelete(pendingOrders, orderData)
    /\ matchFailed' = matchFailed \cup {orderData}
    /\ pc' = "afterAction"
    /\ UNCHANGED <<venue, lastAction, isShuttingDown, currentCycle,
                   ordersInCurrentCycle, targetOrdersInCycle, stack, frameVars,
                   actionVars, handlerVars, attempts, attemptsInCycle,
                   placedInCycle, settledByPoll, statusFailed,
                   lastPoll, signals, sideVars, logVars>>

\* createMatchingOrder returned the order: pendingOrders.delete, enter the
\* polling loop
CreateMatchingOrderOk ==
    /\ Alive /\ pc = "createMatchingOrder"
    /\ requests[reqIdx].sent
    /\ requests' = SetResult(requests, reqIdx, "ok")
    /\ pendingOrders' = MapDelete(pendingOrders, orderData)
    /\ matchingOrderId' = reqIdx
    /\ pc' = PollLoopPc(retryCount, isShuttingDown)
    /\ UNCHANGED <<venue, lastAction, isShuttingDown, currentCycle,
                   ordersInCurrentCycle, targetOrdersInCycle, stack, frameVars,
                   orderData, retryCount, bothOrdersFilled, reqIdx,
                   handlerVars, historyVars, lastPoll, signals,
                   sideVars, logVars>>

\* the 2 s timer fired: Promise.all of the two getOrderStatus calls
PollWaitDone ==
    /\ Alive /\ pc = "pollWait"
    /\ pc' = "pollStatus"
    /\ lastPoll' = <<>>
    /\ UNCHANGED <<engineVars, stack, frameVars, actionVars, handlerVars,
                   requests, historyVars, signals, sideVars, logVars>>

\* both status calls returned
PollStatus ==
    /\ Alive /\ pc = "pollStatus"
    /\ \E first \in LegResults, matching \in LegResults :
        LET out == PollOutcome(first, matching, retryCount) IN
        /\ lastPoll' = <<first, matching>>
        /\ bothOrdersFilled' = out.filled
        /\ retryCount' = out.retryCount
        /\ pc' = IF out.filled THEN "wait5cycle"
                 ELSE PollLoopPc(out.retryCount, isShuttingDown)
        /\ settledByPoll' = IF out.filled \/ out.retryCount >= PollMaxRetries
                            THEN settledByPoll \cup {orderData} ELSE settledByPoll
        /\ IF out.filled /\ SavesTransaction(venue)
           THEN LET rec == TransactionRecord(action, amount, price) IN
                /\ transactions' = saveTransactionData(transactions, rec)
                /\ txHistory' = Append(txHistory, rec)
           ELSE UNCHANGED logVars
    /\ UNCHANGED <<engineVars, stack, frameVars, orderData, matchingOrderId,
                   reqIdx, handlerVars, requests, attempts, attemptsInCycle,
                   placedInCycle, matchFailed, statusFailed, signals,
                   sideVars>>

\* the 5 s timer after a filled pair fired: the nested executeTrade call
Wait5CycleDone_KeepLastAction ==
    /\ Alive /\ pc = "wait5cycle"
    /\ lastPoll' = <<>>
    /\ IF NotShuttingDown(isShuttingDown)
       THEN /\ lastAction' = lastAction
            /\ stack' = <<action>> \o stack
            /\ pc' = "executeTrade"
       ELSE /\ pc' = "afterAction"
            /\ UNCHANGED <<lastAction, stack>>
    /\ UNCHANGED <<venue, isShuttingDown, pendingOrders, currentCycle,
                   ordersInCurrentCycle, targetOrdersInCycle, frameVars,
                   actionVars, handlerVars, requests, historyVars, signals,
                   sideVars, logVars>>
Wait5CycleDone ==
    /\ Alive /\ pc = "wait5cycle"
    /\ lastPoll' = <<>>
    /\ IF NotShuttingDown(isShuttingDown)
       THEN /\ lastAction' = action
            /\ stack' = <<action>> \o stack
            /\ pc' = "executeTrade"
       ELSE /\ pc' = "afterAction"
            /\ UNCHANGED <<lastAction, stack>>
    /\ UNCHANGED <<venue, isShuttingDown, pendingOrders, currentCycle,
                   ordersInCurrentCycle, targetOrdersInCycle, frameVars,
                   actionVars, handlerVars, requests, historyVars, signals,
                   sideVars, logVars>>

\* executeTradeAction returned to executeTrade's retry loop: the counter, the
\* last action, and either the next order of the cycle or break
AfterAction ==
    /\ Alive /\ pc = "afterAction"
    /\ ordersInCurrentCycle' = ordersInCurrentCycle + 1
    /\ lastAction' = action
    /\ pc' = IF /\ ordersInCurrentCycle + 1 < targetOrdersInCycle
                /\ NotShuttingDown(isShuttingDown)
             THEN "wait5next" ELSE "return"
    /\ lastPoll' = <<>>
    /\ orderData' = NoOrder
    /\ matchingOrderId' = NoOrder
    /\ retryCount' = 0
    /\ bothOrdersFilled' = FALSE
    /\ UNCHANGED <<venue, isShuttingDown, pendingOrders, currentCycle,
                   targetOrdersInCycle, stack, frameVars, reqIdx, handlerVars,
                   requests, historyVars, signals, sideVars, logVars>>

\* the 5 s timer before the next order fired: return this.executeTrade(...)
Wait5NextDone ==
    /\ Alive /\ pc = "wait5next"
    /\ pc' = "executeTrade"
    /\ UNCHANGED <<engineVars, stack, frameVars, actionVars, handlerVars,
                   requests, historyVars, lastPoll, signals,
                   sideVars, logVars>>

\* executeTrade returns: to startTrading, or into the executeTradeAction that
\* made the nested call, which breaks out of its polling loop and returns
Return ==
    /\ Alive /\ pc = "return"
    /\ IF stack = <<>>
       THEN /\ pc' = "done"
            /\ UNCHANGED <<stack, action>>
       ELSE /\ pc' = "afterAction"
            /\ action' = Head(stack)
            /\ stack' = Tail(stack)
    /\ UNCHANGED <<engineVars, price, amount, actionVars, handlerVars,
                   requests, historyVars, lastPoll, signals,
                   sideVars, logVars>>

----------------------------------------------------------------------------
(* Shutdown handler (handleShutdown) *)

\* one turn of the handler's for-of loop over pendingOrders.entries():
\* the call of createMatchingOrder for the next entry, or process.exit(0)
HandlerLoop_NoExit(m, seen, rs) ==
    LET rest == Unvisited(m, seen) IN
    IF rest = <<>>
    THEN /\ hpc' = "idle"
         /\ hOrderId' = NoOrder
         /\ hVisited' = seen
         /\ hReqIdx' = 0
         /\ requests' = rs
    ELSE /\ hpc' = "matching"
         /\ hOrderId' = Head(rest).orderId
         /\ hVisited' = seen \cup {Head(rest).orderId}
         /\ hReqIdx' = Len(rs) + 1
         /\ requests' = Append(rs, Req("matching", "shutdown", Head(rest).orderId,
                                       createMatchingOrder(venue, Head(rest).details)))
HandlerLoop(m, seen, rs) ==
    LET rest == Unvisited(m, seen) IN
    IF rest = <<>>
    THEN /\ hpc' = "exited"
         /\ hOrderId' = NoOrder
         /\ hVisited' = seen
         /\ hReqIdx' = 0
         /\ requests' = rs
    ELSE /\ hpc' = "matching"
         /\ hOrderId' = Head(rest).orderId
         /\ hVisited' = seen \cup {Head(rest).orderId}
         /\ hReqIdx' = Len(rs) + 1
         /\ requests' = Append(rs, Req("matching", "shutdown", Head(rest).orderId,
                                       createMatchingOrder(venue, Head(rest).details)))

\* SIGINT / SIGTERM while the main flow is suspended: handleShutdown passes
\* its isShuttingDown test and starts the reconciliation
Signal ==
    /\ Alive /\ pc \in AwaitPcs
    /\ handlersRegistered
    /\ signals < MaxSignals
    /\ ~AlreadyShuttingDown(isShuttingDown)
    /\ signals' = signals + 1
    /\ isShuttingDown' = TRUE
    /\ pendingAtSignal' = Len(pendingOrders)
    /\ HandlerLoop(pendingOrders, {}, requests)
    /\ UNCHANGED <<venue, lastAction, pendingOrders, currentCycle,
                   ordersInCurrentCycle, targetOrdersInCycle, pc, stack,
                   frameVars, actionVars, historyVars, lastPoll,
                   sideVars, logVars>>

\* the handler's await this.createMatchingOrder(orderDetails) returned (the
\* order or null, it never throws): pendingOrders.delete, next entry
ShutdownMatchReturn ==
    /\ hpc = "matching"
    /\ \E r \in {"ok", "fail"} :
        /\ r = "ok" => requests[hReqIdx].sent
        /\ pendingOrders' = MapDelete(pendingOrders, hOrderId)
        /\ HandlerLoop(MapDelete(pendingOrders, hOrderId), hVisited,
                       SetResult(requests, hReqIdx, r))
    /\ UNCHANGED <<venue, lastAction, isShuttingDown, currentCycle,
                   ordersInCurrentCycle, targetOrdersInCycle, pc, stack,
                   frameVars, actionVars, pendingAtSignal, historyVars,
                   lastPoll, signals, sideVars, logVars>>

\* a further SIGINT / SIGTERM while the handler awaits createMatchingOrder:
\* handleShutdown returns at its isShuttingDown test
SignalAgain ==
    /\ Alive /\ pc \in AwaitPcs \cup {"done"}
    /\ signals < MaxSignals
    /\ AlreadyShuttingDown(isShuttingDown)
    /\ signals' = signals + 1
    /\ UNCHANGED <<engineVars, pc, stack, frameVars, actionVars, hpc, hOrderId,
                   hVisited, hReqIdx, pendingAtSignal, requests, historyVars,
                   lastPoll, sideVars, logVars>>

Next ==
    \/ StartTrading
    \/ ExecuteTradeEnter
    \/ GetOrderBookFail
    \/ Wait30Done
    \/ GetOrderBookOk
    \/ GetBalanceFail
    \/ GetBalanceOk
    \/ MarketLimitsOk
    \/ MarketLimitsFail
    \/ CreateOrderFail
    \/ CreateOrderOk
    \/ GetOrderStatusError
    \/ GetOrderStatusOk
    \/ CreateMatchingOrderFail
    \/ CreateMatchingOrderOk
    \/ PollWaitDone
    \/ PollStatus
    \/ Wait5CycleDone
    \/ AfterAction
    \/ Wait5NextDone
    \/ Return
    \/ Signal
    \/ SignalAgain
    \/ ShutdownMatchReturn

Spec == Init /\ [][Next]_vars

\* every exchange call the shutdown handler awaits returns
FairSpec == Spec /\ WF_vars(ShutdownMatchReturn)

----------------------------------------------------------------------------
(* The process supervisor's stop *)

\* the stop kills the process without a signal the engine traps
ForceKill ==
    /\ hpc' = "killed"
    /\ UNCHANGED <<engineVars, pc, stack, frameVars, actionVars, hOrderId,
                   hVisited, hReqIdx, pendingAtSignal, requests, historyVars,
                   lastPoll, signals, sideVars, logVars>>

\* POST /api/bot {action: 'stop'} for a running engine that no signal has
\* reached yet
SupervisorStop ==
    /\ Alive /\ pc \in AwaitPcs
    /\ signals = 0
    /\ \E supervisor \in Supervisors, platform \in Platforms :
        IF Trappable(StopSignal(supervisor, platform), platform)
        THEN Signal
        ELSE ForceKill

SupervisedNext ==
    \/ Next
    \/ SupervisorStop

SupervisedSpec == Init /\ [][SupervisedNext]_vars

----------------------------------------------------------------------------
(* One getBalance() call *)

\* an engine that was constructed and is not trading
Parked ==
    /\ credentials = [apiKey |-> TRUE, secretKey |-> TRUE]
    /\ targetOrdersInCycle = 1

BalanceInit ==
    /\ EngineInit
    /\ Parked
    /\ transactions = <<>>
    /\ txHistory = <<>>
    /\ quote = NoQuote
    /\ server = NoServer
    /\ balanceCall \in
          { [phase |-> "ready", testMode |-> m, testBalance |-> b,
             response |-> r, value |-> 0, requested |-> FALSE, caught |-> FALSE] :
            m \in TestModes, b \in TestBalances, r \in BalanceResponses }

\* await this.getBalance()
GetBalanceCall ==
    /\ balanceCall.phase = "ready"
    /\ LET out == getBalance(venue, balanceCall.testMode, balanceCall.testBalance,
                              balanceCall.response) IN
        balanceCall' = [balanceCall EXCEPT !.phase = "returned",
                                           !.value = out.value,
                                           !.requested = out.requested,
                                           !.caught = out.caught]
    /\ UNCHANGED <<engineVars, pc, stack, frameVars, actionVars, handlerVars,
                   requests, historyVars, lastPoll, signals, credentials,
                   handlersRegistered, orderbookDoc, quote, server, logVars>>

BalanceNext == GetBalanceCall

BalanceSpec == BalanceInit /\ [][BalanceNext]_vars

----------------------------------------------------------------------------
(* One run of the pricing block *)

PriceInit ==
    /\ EngineInit
    /\ Parked
    /\ venue = "azbit"
    /\ transactions = <<>>
    /\ txHistory = <<>>
    /\ balanceCall = NoCall
    /\ server = NoServer
    /\ quote \in
          { [phase |-> "ready", engine |-> e, action |-> a,
             bestBid |-> ob.bestBid, bestAsk |-> ob.bestAsk, adjustment |-> r,
             balance |-> b, price |-> 0, amount |-> 0] :
            e \in Engines, a \in {"buy", "sell"}, ob \in OrderBooks,
            r \in Adjustments, b \in Balances }

\* executeTrade: price and tradeAmount from the order book and the balance
ComputeQuote ==
    /\ quote.phase = "ready"
    /\ LET prc == OrderPrice(quote.engine, quote.action, quote.bestBid,
                             quote.bestAsk, quote.adjustment) IN
        quote' = [quote EXCEPT !.phase = "priced",
                               !.price = prc,
                               !.amount = TradeAmount(quote.balance, prc)]
    /\ UNCHANGED <<engineVars, pc, stack, frameVars, actionVars, handlerVars,
                   requests, historyVars, lastPoll, signals, credentials,
                   handlersRegistered, orderbookDoc, balanceCall, server,
                   logVars>>

PriceNext == ComputeQuote

PriceSpec == PriceInit /\ [][PriceNext]_vars

----------------------------------------------------------------------------
(* saveTransactionData on a transactions file *)

\* the records pushed by SaveTransaction, as opposed to those the file held
Saved(history) == { i \in 1..Len(history) : history[i].amount > 100 }

LogInit ==
    /\ EngineInit
    /\ Parked
    /\ balanceCall = NoCall
    /\ quote = NoQuote
    /\ server = NoServer
    /\ txHistory \in { [i \in 1..k |-> TransactionRecord("buy", i, 1)] : k \in 0..LogCap }
    /\ transactions = txHistory

\* this.saveTransactionData({...})
SaveTransaction ==
    /\ Cardinality(Saved(txHistory)) < MaxSaves
    /\ \E t \in {"buy", "sell"} :
        LET rec == TransactionRecord(t, 101 + Cardinality(Saved(txHistory)), 1) IN
        /\ transactions' = saveTransactionData(transactions, rec)
        /\ txHistory' = Append(txHistory, rec)
    /\ UNCHANGED <<engineVars, pc, stack, frameVars, actionVars, handlerVars,
                   requests, historyVars, lastPoll, signals, sideVars>>

LogNext == SaveTransaction

LogSpec == LogInit /\ [][LogNext]_vars

----------------------------------------------------------------------------
(* The process supervisor of one venue: POST /api/bot of the express server
   (src/index2.js) and of the Next.js route (src/fe/src/app/api/bot/route.ts) *)

\* everything of the engine under the supervisor's requests
tradeVars == <<engineVars, pc, stack, frameVars, actionVars, handlerVars,
               requests, historyVars, lastPoll, signals, credentials,
               handlersRegistered, orderbookDoc, balanceCall, quote, logVars>>

ServerInit ==
    /\ EngineInit
    /\ Parked
    /\ venue = "p2pb2b"
    /\ transactions = <<>>
    /\ txHistory = <<>>
    /\ balanceCall = NoCall
    /\ quote = NoQuote
    /\ server \in
          { [kind |-> k, platform |-> pf, running |-> FALSE,
             process |-> NoProcess, marker |-> FALSE, alive |-> {},
             doomed |-> {}, spawned |-> 0, restarts |-> 0,
             last |-> [action |-> "none", outcome |-> "none"]] :
            k \in Supervisors, pf \in Platforms }

Completed(act, outcome) == [action |-> act, outcome |-> outcome]

\* the start branch past its checks: spawn, botProcesses[botId] update,
\* marker write; either the spawn or the marker write may throw
Spawn(outcome) ==
    LET pid == server.spawned + 1 IN
    CASE outcome = "spawnThrows" ->
            server' = [server EXCEPT !.last = Completed("start", "error")]
      [] outcome = "markerWriteThrows" ->
            server' = [server EXCEPT !.spawned = pid,
                                     !.alive = @ \cup {pid},
                                     !.process = pid,
                                     !.running = TRUE,
                                     !.last = Completed("start", "error")]
      [] outcome = "ok" ->
            server' = [server EXCEPT !.spawned = pid,
                                     !.alive = @ \cup {pid},
                                     !.process = pid,
                                     !.running = TRUE,
                                     !.marker = TRUE,
                                     !.last = Completed("start", "started")]

\* POST /api/bot {action: 'start'}
StartRequest ==
    /\ server.spawned < MaxSpawns
    /\ IF server.running
       THEN server' = [server EXCEPT !.last = Completed("start", "rejected")]
       ELSE \E outcome \in {"ok", "spawnThrows", "markerWriteThrows"} :
               Spawn(outcome)
    /\ UNCHANGED tradeVars

\* the engine processes the stop signals: every process of the venue's
\* script found by ps | grep, or the process of the stored reference
Signalled(s) ==
    IF s.kind = "express" /\ s.platform = "linux"
    THEN s.alive
    ELSE IF s.process # NoProcess THEN {s.process} \cap s.alive ELSE {}

\* stop branch of the express server: kill, flag, marker removal
ExpressStop ==
    /\ server.kind = "express"
    /\ IF ~server.running
       THEN server' = [server EXCEPT !.last = Completed("stop", "rejected")]
       ELSE \E unlinkThrows \in BOOLEAN :
               server' = [server EXCEPT
                   !.doomed = @ \cup Signalled(server),
                   !.process = NoProcess,
                   !.running = FALSE,
                   !.marker = IF unlinkThrows THEN @ ELSE FALSE,
                   !.last = Completed("stop",
                               IF server.marker /\ unlinkThrows
                               THEN "error" ELSE "stopped")]
    /\ UNCHANGED tradeVars

\* stop branch of the Next.js route: marker test, kill, marker removal,
\* botProcesses[botId] reset; on an exception the cleanup of its catch
RouteStop ==
    /\ server.kind = "next"
    /\ IF ~server.marker
       THEN server' = [server EXCEPT !.last = Completed("stop", "rejected")]
       ELSE \E unlinkThrows \in BOOLEAN, cleanupThrows \in BOOLEAN :
               LET killThrows == /\ server.process # NoProcess
                                 /\ server.platform # "win32"
                                 /\ server.process \notin server.alive
                   doomed == server.doomed \cup
                                 (IF killThrows THEN {} ELSE Signalled(server))
               IN
               IF ~killThrows /\ ~unlinkThrows
               THEN server' = [server EXCEPT
                        !.doomed = doomed,
                        !.marker = FALSE,
                        !.process = NoProcess,
                        !.running = FALSE,
                        !.last = Completed("stop", "stopped")]
               ELSE IF cleanupThrows
               THEN server' = [server EXCEPT
                        !.doomed = doomed,
                        !.last = Completed("stop", "error")]
               ELSE server' = [server EXCEPT
                        !.doomed = doomed,
                        !.marker = FALSE,
                        !.running = FALSE,
                        !.last = Completed("stop", "error")]
    /\ UNCHANGED tradeVars

\* GET of the Next.js route: the flag is set from the marker file
RouteStatus ==
    /\ server.kind = "next"
    /\ server' = [server EXCEPT !.running = server.marker,
                                !.last = Completed("status", "ok")]
    /\ UNCHANGED tradeVars

\* a signalled engine process ends
KillTakesEffect ==
    /\ \E p \in server.doomed \cap server.alive :
          server' = [server EXCEPT !.alive = @ \ {p}, !.doomed = @ \ {p}]
    /\ UNCHANGED tradeVars

\* an engine process ends by itself: startTrading returned or main failed
EngineExits ==
    /\ \E p \in server.alive \ server.doomed :
          server' = [server EXCEPT !.alive = @ \ {p}]
    /\ UNCHANGED tradeVars

\* the supervisor process is restarted: botProcesses is initialised again
\* (the express server then runs checkExistingBots); the detached engine
\* processes and the marker file stay
ServerRestart ==
    /\ server.restarts < MaxRestarts
    /\ server' = [server EXCEPT
            !.restarts = @ + 1,
            !.process = NoProcess,
            !.running = IF server.kind = "express" THEN server.marker ELSE FALSE,
            !.last = Completed("none", "none")]
    /\ UNCHANGED tradeVars

ServerNext ==
    \/ StartRequest
    \/ ExpressStop
    \/ RouteStop
    \/ RouteStatus
    \/ KillTakesEffect
    \/ EngineExits
    \/ ServerRestart

ServerSpec == ServerInit /\ [][ServerNext]_vars

----------------------------------------------------------------------------
(* Properties *)

Opposite(side) == IF side = "buy" THEN "sell" ELSE "buy"

\* the matching-order requests: kind "matching" and actually sent
MatchingReqs == { i \in 1..Len(requests) : requests[i].kind = "matching" /\ requests[i].sent }

\* C1: every matching order that is submitted, by executeTradeAction or by
\* the shutdown handler, has the price, the amount and the market of the
\* first order it matches, and the opposite side.
C1_MatchingMirrorsFirst ==
    \A m \in MatchingReqs :
        LET f == requests[m].matchOf IN
        /\ f \in FirstIds
        /\ requests[m].price = requests[f].price
        /\ requests[m].amount = requests[f].amount
        /\ requests[m].market = requests[f].market
        /\ requests[f].side \in {"buy", "sell"}
        /\ requests[m].side = Opposite(requests[f].side)

\* a first order has been matched both by the main flow and by the handler
C1_Witness ==
    \E m \in MatchingReqs, h \in MatchingReqs :
        /\ requests[m].by = "main"
        /\ requests[h].by = "shutdown"
        /\ requests[m].side = "sell"

\* C2: pendingOrders never holds an entry whose matching order was created
\* successfully, and the map is empty once executeTradeAction holds a
\* matching order id.
C2_NoEntryOnceMatched ==
    /\ \A id \in PendingIds :
          \A m \in MatchingOf(id) : requests[m].result # "ok"
    /\ matchingOrderId # NoOrder => pendingOrders = <<>>

\* executeTradeAction has just created the matching order and starts polling
C2_Witness ==
    /\ pc = "pollWait"
    /\ retryCount = 0
    /\ matchingOrderId # NoOrder
    /\ requests[matchingOrderId].result = "ok"
    /\ pendingOrders = <<>>

\* C3: a first order whose matching-order creation failed in
\* executeTradeAction is still in pendingOrders as long as no shutdown
\* reconciliation has started.
C3_EntryKeptOnFailure ==
    hpc = "idle" => \A id \in matchFailed : id \in PendingIds

\* the first orders that were created and have no successfully created
\* matching order
Unmatched ==
    { f \in FirstIds :
        /\ requests[f].result = "ok"
        /\ \A m \in MatchingOf(f) : requests[m].result # "ok" }

\* C4: wherever the main flow is suspended, every created and still unmatched
\* first order is in pendingOrders, until shutdown reconciliation is over.
C4_PendingWhileUnmatched ==
    (pc \in AwaitPcs /\ Alive) => \A f \in Unmatched : f \in PendingIds

\* the createMatchingOrder calls made by the shutdown handler
ShutdownAttempts == { i \in 1..Len(requests) : requests[i].by = "shutdown" }

C6_AtMostOneMatchingRequest ==
    \A f \in FirstIds : Cardinality(MatchingOf(f)) <= 1

\* a pair has settled: both orders polled as filled or the polls used up, or
\* one of the steps that create it failed (createOrder, the status check of
\* the new order, createMatchingOrder)
Settled(f) ==
    \/ f \in settledByPoll
    \/ requests[f].result = "fail"
    \/ f \in statusFailed
    \/ \E i \in 1..Len(requests) :
          /\ requests[i].kind = "matching"
          /\ requests[i].matchOf = f
          /\ requests[i].result = "fail"

\* C7: pairs are strictly sequential: at no time are two pairs unsettled at
\* once, so a first order is only placed when every earlier pair has settled.
C7_OnePairAtATime ==
    Cardinality({ f \in FirstIds : ~Settled(f) }) <= 1

\* the nested executeTrade call places the first order of the next pair, and
\* the pair before it was polled as filled
C7_Witness ==
    /\ stack # <<>>
    /\ pc = "createOrder"
    /\ Cardinality(FirstIds) = 2
    /\ \E f \in FirstIds : f \in settledByPoll

\* C8: when a pair attempt starts, ordersInCurrentCycle equals the number of
\* attempts already made in the cycle, and the counter goes back to 0 exactly
\* in the step that begins a new cycle.
C8_CounterCountsAttempts ==
    [][ /\ attempts' = attempts + 1 => ordersInCurrentCycle' = attemptsInCycle' - 1
        /\ (ordersInCurrentCycle # 0 /\ ordersInCurrentCycle' = 0)
              => currentCycle' = currentCycle + 1
        /\ currentCycle' # currentCycle => ordersInCurrentCycle' = 0 ]_vars

\* C9: within one cycle the engine places first orders for no more than
\* targetOrdersInCycle pairs, so never more than 5.
C9_AtMostTargetPairsPerCycle ==
    /\ placedInCycle <= targetOrdersInCycle
    /\ placedInCycle <= MaxOrderCount

\* C10: once the last pair of a cycle has completed and no termination signal
\* was received, the engine is on its way back to the market fetch, where the
\* cycle bootstrap resets the counter.
C10_BootstrapAfterLastPair ==
    (ordersInCurrentCycle >= targetOrdersInCycle /\ ~isShuttingDown)
        => pc \in {"executeTrade", "getOrderBook", "wait30"}

\* C11: when the polls of a pair are used up without both orders filled and
\* no termination signal was received, the engine goes on towards the next
\* market fetch (the 5 s wait before the next executeTrade) instead of
\* returning.
C11_ContinuesAfterUnfilledPair ==
    [][ ( /\ pc = "afterAction"
          /\ lastPoll # <<>>
          /\ ~bothOrdersFilled
          /\ retryCount >= PollMaxRetries
          /\ ~isShuttingDown )
        => pc' = "wait5next" ]_vars

\* C12: while no termination signal was delivered and every first-order
\* creation so far has failed, startTrading has not returned.
C12_NeverHaltsOnTradingErrors ==
    ( /\ ~isShuttingDown
      /\ \A f \in FirstIds : requests[f].result = "fail" )
    => pc # "done"

\* C13: an attempt whose first-order creation failed is not counted as a
\* completed order: ordersInCurrentCycle never exceeds the number of first
\* orders that were created.
C13_FailedCreateNotCounted ==
    ordersInCurrentCycle <= Cardinality({ f \in FirstIds : requests[f].result = "ok" })

\* C14: a pair is polled at most PollMaxRetries times, polling has ended
\* once bothOrdersFilled is set, and a poll sets bothOrdersFilled exactly
\* when both legs report a fill at or above the threshold.
C14_PollingEndsAtFirstFill ==
    /\ retryCount + (IF bothOrdersFilled THEN 1 ELSE 0) <= PollMaxRetries
    /\ pc \in {"pollWait", "pollStatus"}
          => (~bothOrdersFilled /\ retryCount < PollMaxRetries)
    /\ lastPoll # <<>>
          => (bothOrdersFilled <=>
                (lastPoll[1] >= FillThreshold /\ lastPoll[2] >= FillThreshold))

\* both legs cleared the threshold at the third poll and the loop has ended
C14_Witness ==
    /\ pc = "wait5cycle"
    /\ retryCount = 2
    /\ bothOrdersFilled
    /\ lastPoll = <<FillThreshold, FillThreshold>>

\* C15: a poll in which a status call fails uses exactly one attempt and does
\* not mark the pair as filled, whatever the other leg reports.
C15_ErrorPollConsumesOneAttempt ==
    [][ ( /\ pc = "pollStatus"
          /\ lastPoll' # <<>>
          /\ (lastPoll'[1] = StatusError \/ lastPoll'[2] = StatusError) )
        => ( /\ retryCount' = retryCount + 1
             /\ ~bothOrdersFilled'
             /\ pc' # "wait5cycle" ) ]_vars

\* the second poll of a pair failed on the matching leg while the first leg
\* reported a fill at the threshold
C15_Witness ==
    /\ lastPoll = <<FillThreshold, StatusError>>
    /\ retryCount = 2
    /\ pc = "pollWait"

\* C16: once isShuttingDown is set no further first-order creation request is
\* issued.
C16_NoFirstOrderAfterShutdown ==
    [][ isShuttingDown => FirstIds' = FirstIds ]_vars

\* the main flow ran on after the signal, while the handler awaits its
\* matching order, and returned from executeTrade without a new first order
C16_Witness ==
    /\ isShuttingDown
    /\ hpc = "matching"
    /\ pc = "return"
    /\ Cardinality(FirstIds) = 1

\* C17: while the shutdown flag is set and the current pair has its matching
\* order but has not settled by polling, the engine is still polling it.
C17_PollingSurvivesShutdown ==
    ( /\ isShuttingDown
      /\ matchingOrderId # NoOrder
      /\ orderData \notin settledByPoll )
    => (Alive /\ pc \in {"pollWait", "pollStatus"})

\* C18: a termination signal delivered after the first one changes nothing:
\* no new pass over pendingOrders and no matching-order request.
C18_ReconciliationRunsOnce ==
    [][ (signals >= 1 /\ signals' = signals + 1)
        => UNCHANGED <<requests, pendingOrders, isShuttingDown, hpc, hOrderId,
                       hVisited, hReqIdx, pendingAtSignal>> ]_vars

\* a second signal was delivered while the handler awaits its matching order
C18_Witness ==
    /\ signals = 2
    /\ hpc = "matching"
    /\ Cardinality(ShutdownAttempts) = 1

\* C19: after a termination signal the process eventually exits, provided
\* the exchange calls the handler awaits return.
C19_ShutdownTerminates ==
    isShuttingDown ~> hpc = "exited"

\* the process exited after one reconciliation attempt while the main flow
\* was still awaiting its own createMatchingOrder call
C19_Witness ==
    /\ hpc = "exited"
    /\ pendingAtSignal = 1
    /\ pc = "createMatchingOrder"

\* C20: a failed order-book or balance fetch sends no request and leaves
\* pendingOrders alone; the 30 s wait is followed by a re-run of executeTrade
\* and by nothing else; and a cycle bootstrap happens only after at least one
\* pair attempt since the previous one.
C20_FetchFailureRetries ==
    [][ /\ (pc \in {"getOrderBook", "getBalance"} /\ pc' = "wait30")
            => UNCHANGED <<requests, pendingOrders>>
        /\ (pc = "wait30" /\ pc' # pc)
            => ( /\ pc' = "executeTrade"
                 /\ UNCHANGED <<requests, pendingOrders, currentCycle,
                                ordersInCurrentCycle>> )
        /\ currentCycle' # currentCycle
            => (currentCycle' = currentCycle + 1 /\ attemptsInCycle > 0) ]_vars

\* a fetch failed after a pair had been attempted and the engine waits to
\* re-run the step
C20_Witness ==
    /\ pc = "wait30"
    /\ attempts >= 1
    /\ ~isShuttingDown

----------------------------------------------------------------------------
(* Test mode, pricing, files, construction, supervision *)

\* C21: with TEST_MODE = 'true' and TEST_BALANCE = '100', getBalance() of
\* either engine returns 100, makes no venue request and does not go through
\* its catch block.
C21_TestModeBalance ==
    ( /\ balanceCall.phase = "returned"
      /\ balanceCall.testMode = "true"
      /\ balanceCall.testBalance = "100" )
        => ( /\ balanceCall.value = 100
             /\ ~balanceCall.requested
             /\ ~balanceCall.caught )

\* the P2PB2B engine returned from getBalance() in test mode while the venue
\* would have failed the request
C21_Witness ==
    /\ balanceCall.phase = "returned"
    /\ balanceCall.testMode = "true"
    /\ balanceCall.testBalance = "100"
    /\ venue = "p2pb2b"
    /\ balanceCall.response.kind = "throws"
    /\ balanceCall.value = 100

\* C22: for a buy and for a sell alike the price is bestAsk * (1 - r/100)
\* rounded, strictly below bestAsk and not derived from bestBid, and the
\* amount is max(0.1, 0.3 * balance / price).
C22_PriceBelowBestAsk ==
    quote.phase = "priced"
        => ( /\ quote.price = RoundDiv(quote.bestAsk * (10000 - quote.adjustment), 10000)
             /\ quote.price < quote.bestAsk
             /\ quote.amount = Max(MinTradeAmount,
                                   RoundDiv(30 * quote.balance, quote.price)) )

\* C23: the transactions file never holds more than 20 records, and it holds
\* the most recent ones in the order they were appended: appending to a full
\* file drops the record at index 0.
C23_LogKeepsLatest ==
    /\ Len(transactions) <= LogCap
    /\ transactions = SliceLast(txHistory, LogCap)

\* a full file after two more saves than it has room for
C23_Witness ==
    /\ Len(txHistory) = LogCap + 2
    /\ Len(transactions) = LogCap
    /\ transactions[1] = txHistory[3]

\* C24: once a pair has been observed filled, the transactions file holds its
\* record: type of the first order, amount, price, total = amount * price,
\* status completed.
C24_FilledPairRecorded ==
    (bothOrdersFilled /\ pc = "wait5cycle")
        => \E i \in 1..Len(transactions) :
              transactions[i] = TransactionRecord(action, amount, price)

\* C25: while no signal has arrived, every successfully created first order
\* either is the one whose status is being looked up or has had a matching
\* order attempted for it.
C25_EveryFirstOrderMatched ==
    (signals = 0 /\ ~isShuttingDown)
        => \A f \in FirstIds :
              requests[f].result = "ok"
                  => \/ (pc = "getOrderStatus" /\ orderData = f)
                     \/ \E i \in 1..Len(requests) :
                           requests[i].kind = "matching" /\ requests[i].matchOf = f

\* C26: on either venue a successfully created first order is followed by the
\* status lookup, the step that leads to registering, matching and polling.
C26_SameStepSequence ==
    [][ (pc = "createOrder" /\ pc' # pc /\ requests'[reqIdx].result = "ok")
            => pc' = "getOrderStatus" ]_vars

\* C27: with the API key or the secret key missing the constructor throws:
\* no shutdown handler is registered, no request is sent to the exchange, no
\* trading step runs, no signal is handled.
C27_NoKeysNoStart ==
    (~credentials.apiKey \/ ~credentials.secretKey)
        => ( /\ pc = "refused"
             /\ ~handlersRegistered
             /\ requests = <<>>
             /\ attempts = 0
             /\ currentCycle = 0
             /\ signals = 0
             /\ ~isShuttingDown )

\* the constructor threw for a missing secret key
C27_Witness ==
    /\ pc = "refused"
    /\ credentials.apiKey
    /\ ~credentials.secretKey

\* C28: an engine process stopped by the supervisor has gone through its
\* shutdown handler before it ended.
C28_StopReconciles ==
    ~Alive => isShuttingDown

\* C29: once a cycle step has fetched the order book, the orderbook file has
\* been written.
C29_SnapshotWritten ==
    pc = "getBalance" => orderbookDoc # NoDocument

\* C30: targetOrdersInCycle is one of 1, 2, 3, 4, 5 in every reachable state.
C30_TargetInRange ==
    targetOrdersInCycle \in {1, 2, 3, 4, 5}

\* the drawn target is the largest one and two pairs of the cycle are done
C30_Witness ==
    /\ targetOrdersInCycle = 5
    /\ ordersInCurrentCycle = 2

----------------------------------------------------------------------------
(* Alternation, cycle counters, reconciliation outcome *)

\* C31: the sides of consecutive pair attempts alternate, starting with buy:
\* the n-th attempt of the engine is a buy when n is odd and a sell when n is
\* even, whatever became of the attempts before it.
C31_ActionsAlternate ==
    [][ attempts' # attempts
            => action' = IF attempts' % 2 = 1 THEN "buy" ELSE "sell" ]_vars

\* the third attempt, a buy, made by a nested executeTrade after an attempt
\* whose order creation failed
C31_Witness ==
    /\ attempts = 3
    /\ action = "buy"
    /\ stack # <<>>
    /\ \E f \in FirstIds : requests[f].result = "fail"

\* C33: when the shutdown handler's createMatchingOrder call fails, the
\* pending entry it was made for stays in pendingOrders; only a created
\* matching order removes the entry.
C33_FailedReconciliationKeepsEntry ==
    [][ ( /\ hpc = "matching"
          /\ requests[hReqIdx].result = "inflight"
          /\ requests'[hReqIdx].result = "fail" )
            => UNCHANGED pendingOrders ]_vars

\* C36: ordersInCurrentCycle never exceeds targetOrdersInCycle.
C36_CounterWithinTarget ==
    ordersInCurrentCycle <= targetOrdersInCycle

\* C37: pendingOrders holds at most one entry, and holds one only while the
\* main flow awaits the creation of that entry's matching order, so before
\* any further first order can be created.
C37_AtMostOnePending ==
    /\ Len(pendingOrders) <= 1
    /\ pendingOrders # <<>>
          => ( /\ pc = "createMatchingOrder"
               /\ PendingIds = {orderData} )

\* the entry of the second pair's first order is the only one, after the
\* first pair's entry has been removed
C37_Witness ==
    /\ Len(pendingOrders) = 1
    /\ Cardinality(FirstIds) = 2
    /\ PendingIds = {orderData}

\* C34: at most one engine process of a venue is alive at any time.
C34_OneEnginePerVenue ==
    Cardinality(server.alive) <= 1

\* C35: after a completed start or stop request the in-memory running flag
\* is true exactly when the marker file exists.
C35_FlagMatchesMarker ==
    server.last.action \in {"start", "stop"}
        => (server.running <=> server.marker)

\* C38: the notional amount * price of a submitted order does not exceed 30%
\* of the balance, up to the rounding of the two figures (one hundredth each
\* way).
C38_NotionalWithinShare ==
    quote.phase = "priced"
        => quote.amount * quote.price <= 30 * quote.balance + quote.amount + quote.price

====
